---- MODULE Spec2Model ----
(***************************************************************************)
(* Model of the camera screen of PhomoV2App, src/app/(tabs)/_layout.tsx:   *)
(* the capture sequencer (handleCapture, TimerCountdown,                   *)
(* handleTimerComplete), the zoom controller (pinch worklets, quick-select *)
(* buttons, camera flip) and the gesture arbiter.                          *)
(*                                                                         *)
(* React semantics the model keeps:                                        *)
(*  - a hook's state (isCapturing, timerActive, ...) is one thing, the     *)
(*    value a callback closed over at the last committed render is         *)
(*    another: `rendered` is the snapshot the callbacks of the committed   *)
(*    render read; setState writes the hook state and marks it dirty;      *)
(*  - updates made in a discrete event handler (onPress) are rendered      *)
(*    synchronously before any other JS task runs (lane = "sync");         *)
(*    updates made in timers, promise continuations, native callbacks and  *)
(*    scheduleOnRN callbacks are rendered in a later task                  *)
(*    (lane = "default");                                                  *)
(*  - passive effects (useEffect) of a commit run after it, and always     *)
(*    before the next render;                                              *)
(*  - worklets (pinch callbacks) run on the UI thread, concurrently with   *)
(*    the JS thread, and reach it only through scheduleOnRN messages.      *)
(***************************************************************************)
EXTENDS Integers, Sequences, FiniteSets, TLC

\* ------------------------------------------------------------------ bounds
MaxPresses == 2

MaxQueue == 2

MaxFingers == 2

MaxFocus == 2

MaxExposureCalls == 3

\* the camera devices useCameraDevice may return: the maxZoom and
\* supportsFocus the hardware reports.  The back camera is the 10x one, the
\* front camera any of the three.
Devices == {[maxZoom |-> 10, supportsFocus |-> TRUE],
            [maxZoom |-> 4, supportsFocus |-> FALSE],
            [maxZoom |-> 2, supportsFocus |-> TRUE]}

\* pinch scales e.scale as <<numerator, denominator>>
Scales == {<<1, 2>>, <<2, 1>>, <<4, 1>>}

Positions == {"back", "front"}

TimerModes == <<0, 3, 5, 10>>

ZoomLevels == {1, 2, 3}

\* e.y of the slider's pan gesture: above the track, its ends, inside, below
DragPositions == {0 - 20, 8, 42, 76, 144, 200}

SLIDER_HEIGHT == 180

THUMB_SIZE == 28

PADDING == 8

MIN_EXPOSURE == -2

MAX_EXPOSURE == 2

\* const trackHeight = SLIDER_HEIGHT - THUMB_SIZE - PADDING * 2
trackHeight == SLIDER_HEIGHT - THUMB_SIZE - PADDING * 2

\* ------------------------------------------------------------------- state
VARIABLES
    \* React state of CameraScreen
    cameraPosition, cameraReady, isCapturing, showFlashOverlay, lastPhoto,
    zoom, showZoomIndicator, timerMode, timerActive,
    \* TimerCountdown: mounted, its count state, its pending effect, its timeout
    mounted, count, countEffect, tickTimer,
    \* the committed render (closure values of the callbacks) and React's lane
    rendered, lane, zoomEffect,
    \* shared values (UI thread) and the scheduleOnRN messages not yet run
    zoomValue, pinchStartZoom, pinching, rnQueue,
    \* the touch and the recognizers of composedGesture
    fingers, gesture, tapsSoFar,
    \* focus state of CameraScreen and the focus requests not yet settled
    focusPoint, showFocusIndicator, focusInflight, focusTimers, lastFocusResult,
    \* timers
    flashTimers, zoomTimeout,
    \* exposure (in units of 1/trackHeight), the slider, the exposureTimeout ref
    \* (id of the timeout it holds, 0 for null) and the timeouts still pending
    exposure, showExposureSlider, exposureTimeout, exposureTimers,
    \* history of the exposure calls
    exposureCalls, lastExposureCall, dragY,
    \* hardware collaborator
    devices, deviceInitialized, inflight,
    \* history of the current tap cycle
    firedTap, firedDoubleTap, multiTouch, pinched,
    \* history
    presses, shots, ticks, trig, rejected, unhandled, lastResult, lastOp

hookVars == <<cameraPosition, cameraReady, isCapturing, showFlashOverlay, lastPhoto,
              zoom, showZoomIndicator, timerMode, timerActive>>

countdownVars == <<mounted, count, countEffect, tickTimer>>

reactVars == <<rendered, lane, zoomEffect>>

uiVars == <<zoomValue, pinchStartZoom, pinching, rnQueue>>

touchVars == <<fingers, gesture, tapsSoFar, firedTap, firedDoubleTap, multiTouch, pinched>>

focusVars == <<focusPoint, showFocusIndicator, focusInflight, focusTimers,
               lastFocusResult>>

envVars == <<devices, touchVars, focusVars>>

timerVars == <<flashTimers, zoomTimeout>>

exposureVars == <<exposure, showExposureSlider, exposureTimeout, exposureTimers,
                  exposureCalls, lastExposureCall, dragY>>

hwVars == <<envVars, deviceInitialized, inflight>>

histVars == <<presses, shots, ticks, trig, rejected, unhandled, lastResult>>

vars == <<hookVars, countdownVars, reactVars, uiVars, timerVars, exposureVars, hwVars,
          histVars, lastOp>>

\* ----------------------------------------------------------------- helpers
Min(a, b) == IF a < b THEN a ELSE b

Max(a, b) == IF a > b THEN a ELSE b

\* Math.max(lo, Math.min(hi, v))
Clamp(v, lo, hi) == Max(lo, Min(hi, v))

\* const maxZoom = device?.maxZoom ?? 10, for the device of a camera position
maxZoom(pos) == devices[pos].maxZoom

\* the Camera element is part of every render of the main screen, so the ref
\* is attached whenever a handler of that screen can run
cameraRefCurrent == TRUE

\* the values the callbacks and effects of a render close over
Snapshot(c) ==
    [isCapturing |-> isCapturing, cameraReady |-> cameraReady,
     timerMode |-> timerMode, timerActive |-> timerActive,
     cameraPosition |-> cameraPosition, zoom |-> zoom,
     showFlashOverlay |-> showFlashOverlay,
     showExposureSlider |-> showExposureSlider, count |-> c]

Dirty == Snapshot(count) # rendered

EffectsPending == countEffect \/ zoomEffect

\* a discrete event's updates are flushed before any other JS task
Busy == lane = "sync" /\ (Dirty \/ EffectsPending)

\* CaptureState of the spec, read off the hook state
Remaining == IF mounted THEN count ELSE timerMode

Phase ==
    IF isCapturing THEN <<"Capturing", 0>>
    ELSE IF timerActive THEN <<"CountingDown", Remaining>>
    ELSE <<"Idle", 0>>

\* ----------------------------------------------------------------- initial
\* a screen that believes the camera ready from the start
cameraReadyInitiallyTrue == TRUE

\* const [cameraReady, setCameraReady] = useState(false)
cameraReadyInitially == FALSE

Init ==
    /\ cameraPosition = "back"
    /\ cameraReady = cameraReadyInitially
    /\ isCapturing = FALSE
    /\ showFlashOverlay = FALSE
    /\ lastPhoto = 0
    /\ zoom = 1
    /\ showZoomIndicator = FALSE
    /\ showExposureSlider = FALSE
    /\ timerMode = 0
    /\ timerActive = FALSE
    /\ mounted = FALSE
    /\ count = 0
    /\ countEffect = FALSE
    /\ tickTimer = 0
    /\ rendered = Snapshot(0)
    /\ lane = "default"
    /\ zoomEffect = FALSE
    /\ zoomValue = 1
    /\ pinchStartZoom = 1
    /\ pinching = FALSE
    /\ fingers = 0
    /\ gesture = [r \in {"pinch", "doubleTap", "tap"} |-> "UNDETERMINED"]
    /\ tapsSoFar = 0
    /\ firedTap = 0
    /\ firedDoubleTap = 0
    /\ multiTouch = FALSE
    /\ pinched = FALSE
    /\ focusPoint = 0
    /\ showFocusIndicator = FALSE
    /\ focusInflight = 0
    /\ focusTimers = 0
    /\ lastFocusResult = "none"
    /\ rnQueue = <<>>
    /\ flashTimers = 0
    /\ zoomTimeout = FALSE
    /\ devices \in {d \in [Positions -> Devices] : d["back"].maxZoom = 10}
    /\ deviceInitialized = FALSE
    /\ inflight = {}
    /\ presses = 0
    /\ shots = 0
    /\ ticks = 0
    /\ trig = 0
    /\ rejected = 0
    /\ unhandled = 0
    /\ lastResult = "none"
    /\ lastOp = <<"none", 0>>
    /\ exposure = 0
    /\ exposureTimeout = 0
    /\ exposureTimers = {}
    /\ exposureCalls = 0
    /\ lastExposureCall = "none"
    /\ dragY = 0

\* -------------------------------------------------------- capture sequencer
\* what handleCapture does, from the values its closure cl holds
CaptureDecision(cl) ==
    IF ~cameraRefCurrent \/ cl.isCapturing \/ ~cl.cameraReady THEN "ignored"
    ELSE IF cl.timerMode > 0 /\ ~cl.timerActive THEN "countdown"
    ELSE "shoot"

\* handleCapture up to its first await; ta is the timerActive value already
\* queued by the caller
handleCapture(cl, ta) ==
    LET d == CaptureDecision(cl) IN
    /\ timerActive' = IF d = "countdown" THEN TRUE ELSE ta
    /\ isCapturing' = IF d = "shoot" THEN TRUE ELSE isCapturing
    /\ showFlashOverlay' = IF d = "shoot" THEN TRUE ELSE showFlashOverlay
    /\ shots' = IF d = "shoot" THEN shots + 1 ELSE shots
    /\ inflight' = IF d = "shoot" THEN inflight \cup {shots + 1} ELSE inflight

\* handleTimerComplete of the render whose closure is cl
handleTimerComplete(cl) == handleCapture(cl, FALSE)

\* Camera isActive={isActive && !timerActive} of the render cl, the screen
\* being the focused one (isActive true)
CameraIsActive(cl) == ~cl.timerActive

\* CaptureButton: disabled={isCapturing || !cameraReady} of the committed render
CaptureButtonDisabled == rendered.isCapturing \/ ~rendered.cameraReady

\* a press of the capture button
PressCapture ==
    /\ ~Busy
    /\ presses < MaxPresses
    /\ presses' = presses + 1
    /\ trig' = IF Phase[1] = "Idle" /\ inflight = {} THEN 1 ELSE trig + 1
    /\ IF CaptureButtonDisabled
          THEN UNCHANGED <<timerActive, isCapturing, showFlashOverlay, shots, inflight>>
          ELSE handleCapture(rendered, timerActive)
    /\ lane' = IF CaptureButtonDisabled \/ CaptureDecision(rendered) = "ignored"
                  THEN lane ELSE "sync"
    /\ UNCHANGED lastOp
    /\ UNCHANGED <<exposureVars, cameraPosition, cameraReady, lastPhoto, zoom, showZoomIndicator,
                   timerMode, countdownVars, rendered, zoomEffect, uiVars, timerVars,
                   envVars, deviceInitialized,
                   ticks, rejected, unhandled, lastResult>>

\* a tick that skips a second
NextCountSkipping(c) == IF c > 1 THEN c - 2 ELSE 0

\* setCount(count - 1), count being the value the effect closed over
NextCount(c) == c - 1

\* the setTimeout callback of TimerCountdown's effect, a second after it
Tick ==
    /\ ~Busy
    /\ tickTimer > 0
    /\ count' = NextCount(tickTimer)
    /\ tickTimer' = 0
    /\ ticks' = ticks + 1
    /\ lane' = "default"
    /\ UNCHANGED lastOp
    /\ UNCHANGED <<exposureVars, hookVars, mounted, countEffect, rendered, zoomEffect, uiVars,
                   timerVars, hwVars, presses, shots, trig, rejected, unhandled,
                   lastResult>>

\* takePhoto resolves: setLastPhoto(photo); finally setIsCapturing(false) and
\* the delayed overlay hide
TakePhotoResolved(id) ==
    /\ ~Busy
    /\ id \in inflight
    /\ inflight' = inflight \ {id}
    /\ lastPhoto' = id
    /\ isCapturing' = FALSE
    /\ flashTimers' = flashTimers + 1
    /\ lastResult' = "ok"
    /\ lane' = "default"
    /\ UNCHANGED lastOp
    /\ UNCHANGED <<exposureVars, cameraPosition, cameraReady, showFlashOverlay, zoom,
                   showZoomIndicator, timerMode, timerActive, countdownVars,
                   rendered, zoomEffect, uiVars, zoomTimeout, envVars,
                   deviceInitialized, presses, shots, ticks, trig, rejected,
                   unhandled>>

\* a rejection handled without the finally block
TakePhotoRejectedNoFinally(id) ==
    /\ ~Busy
    /\ id \in inflight
    /\ inflight' = inflight \ {id}
    /\ rejected' = rejected + 1
    /\ lastResult' = "failed"
    /\ lane' = "default"
    /\ UNCHANGED lastOp
    /\ UNCHANGED <<exposureVars, cameraPosition, cameraReady, isCapturing, showFlashOverlay,
                   lastPhoto, zoom, showZoomIndicator, timerMode, timerActive,
                   countdownVars, rendered, zoomEffect, uiVars, timerVars, envVars,
                   deviceInitialized, presses, shots, ticks, trig, unhandled>>

\* a rejection that drops the photo kept so far
TakePhotoRejectedClearsPhoto(id) ==
    /\ ~Busy
    /\ id \in inflight
    /\ inflight' = inflight \ {id}
    /\ isCapturing' = FALSE
    /\ lastPhoto' = 0
    /\ flashTimers' = flashTimers + 1
    /\ rejected' = rejected + 1
    /\ lastResult' = "failed"
    /\ lane' = "default"
    /\ UNCHANGED lastOp
    /\ UNCHANGED <<exposureVars, cameraPosition, cameraReady, showFlashOverlay, zoom,
                   showZoomIndicator, timerMode, timerActive, countdownVars,
                   rendered, zoomEffect, uiVars, zoomTimeout, envVars,
                   deviceInitialized, presses, shots, ticks, trig, unhandled>>

\* takePhoto rejects: caught and logged; finally as above
TakePhotoRejected(id) ==
    /\ ~Busy
    /\ id \in inflight
    /\ inflight' = inflight \ {id}
    /\ isCapturing' = FALSE
    /\ flashTimers' = flashTimers + 1
    /\ rejected' = rejected + 1
    /\ lastResult' = "failed"
    /\ lane' = "default"
    /\ UNCHANGED lastOp
    /\ UNCHANGED <<exposureVars, cameraPosition, cameraReady, showFlashOverlay, lastPhoto, zoom,
                   showZoomIndicator, timerMode, timerActive, countdownVars,
                   rendered, zoomEffect, uiVars, zoomTimeout, envVars,
                   deviceInitialized, presses, shots, ticks, trig, unhandled>>

\* setTimeout(() => setShowFlashOverlay(false), 200)
FlashTimerFires ==
    /\ ~Busy
    /\ flashTimers > 0
    /\ flashTimers' = flashTimers - 1
    /\ showFlashOverlay' = FALSE
    /\ lane' = "default"
    /\ UNCHANGED lastOp
    /\ UNCHANGED <<exposureVars, cameraPosition, cameraReady, isCapturing, lastPhoto, zoom,
                   showZoomIndicator, timerMode, timerActive, countdownVars,
                   rendered, zoomEffect, uiVars, zoomTimeout, hwVars, histVars>>

\* Camera onInitialized={() => setCameraReady(true)}
OnInitialized ==
    /\ ~Busy
    /\ ~deviceInitialized
    /\ deviceInitialized' = TRUE
    /\ cameraReady' = TRUE
    /\ lane' = "default"
    /\ UNCHANGED lastOp
    /\ UNCHANGED <<exposureVars, cameraPosition, isCapturing, showFlashOverlay, lastPhoto, zoom,
                   showZoomIndicator, timerMode, timerActive, countdownVars,
                   rendered, zoomEffect, uiVars, timerVars, envVars, inflight,
                   histVars>>

\* modes.indexOf(prev)
IndexOf(m) == CHOOSE i \in 1..Len(TimerModes) : TimerModes[i] = m

\* a cycle that runs the other way round
NextTimerModeBackwards(m) == TimerModes[((IndexOf(m) + 2) % Len(TimerModes)) + 1]

\* modes[(idx + 1) % modes.length]
NextTimerMode(m) == TimerModes[(IndexOf(m) % Len(TimerModes)) + 1]

\* a press of the timer button
cycleTimer ==
    /\ ~Busy
    /\ timerMode' = NextTimerMode(timerMode)
    /\ lane' = "sync"
    /\ UNCHANGED lastOp
    /\ UNCHANGED <<exposureVars, cameraPosition, cameraReady, isCapturing, showFlashOverlay,
                   lastPhoto, zoom, showZoomIndicator, timerActive, countdownVars,
                   rendered, zoomEffect, uiVars, timerVars, hwVars, histVars>>

\* ------------------------------------------------------------ React commits
\* a render of CameraScreen (and of TimerCountdown under it) and its commit
Render ==
    /\ Dirty
    /\ ~EffectsPending
    /\ LET mountNow == timerActive /\ ~mounted
           unmountNow == ~timerActive /\ mounted
           c == IF mountNow THEN timerMode ELSE IF unmountNow THEN 0 ELSE count
       IN  /\ count' = c
           /\ mounted' = timerActive
           /\ countEffect' = (mountNow \/ (mounted /\ timerActive /\ count # rendered.count))
           /\ tickTimer' = IF unmountNow THEN 0 ELSE tickTimer
           /\ rendered' = Snapshot(c)
           /\ zoomEffect' = (zoom # rendered.zoom)
    /\ UNCHANGED <<exposureVars, hookVars, lane, uiVars, timerVars, hwVars, histVars, lastOp>>

\* the passive effects of the last commit: TimerCountdown's [count] effect,
\* then CameraScreen's zoomValue.value = zoom
FlushPassiveEffects ==
    /\ EffectsPending
    /\ countEffect' = FALSE
    /\ zoomEffect' = FALSE
    /\ zoomValue' = IF zoomEffect THEN rendered.zoom ELSE zoomValue
    /\ IF countEffect /\ rendered.count <= 0
          THEN /\ tickTimer' = 0
               /\ handleTimerComplete(rendered)
          ELSE /\ tickTimer' = IF countEffect THEN rendered.count ELSE tickTimer
               /\ UNCHANGED <<timerActive, isCapturing, showFlashOverlay, shots, inflight>>
    /\ UNCHANGED <<exposureVars, cameraPosition, cameraReady, lastPhoto, zoom, showZoomIndicator,
                   timerMode, mounted, count, rendered, lane, pinchStartZoom,
                   pinching, rnQueue, timerVars, envVars, deviceInitialized,
                   presses, ticks, trig, rejected, unhandled, lastResult, lastOp>>

\* ---------------------------------------------------------- zoom controller
\* toggleCamera: setCameraPosition(prev => prev === 'back' ? 'front' : 'back')
OtherPosition(pos) == IF pos = "back" THEN "front" ELSE "back"

\* a press of the camera-reverse button
toggleCamera ==
    /\ ~Busy
    /\ cameraPosition' = OtherPosition(cameraPosition)
    /\ deviceInitialized' = FALSE
    /\ lane' = "sync"
    /\ lastOp' = <<"flip", 0>>
    /\ UNCHANGED <<exposureVars, cameraReady, isCapturing, showFlashOverlay, lastPhoto, zoom,
                   showZoomIndicator, timerMode, timerActive, countdownVars,
                   rendered, zoomEffect, uiVars, timerVars, envVars, inflight,
                   presses, shots, ticks, trig, rejected, unhandled, lastResult>>

\* the value a quick-select press stores: setZoom(level)
DiscreteZoom(level, mz) == level

\* onPress of a zoom level button (1x, 2x, 3x)
setDiscreteZoom(level) ==
    /\ ~Busy
    /\ zoom' = DiscreteZoom(level, maxZoom(rendered.cameraPosition))
    /\ lane' = "sync"
    /\ lastOp' = <<"select", level>>
    /\ UNCHANGED <<exposureVars, cameraPosition, cameraReady, isCapturing, showFlashOverlay,
                   lastPhoto, showZoomIndicator, timerMode, timerActive,
                   countdownVars, rendered, zoomEffect, uiVars, timerVars, hwVars,
                   histVars>>

\* Math.max(1, Math.min(maxZoom, pinchStartZoom.value * e.scale))
PinchZoom(base, scale, mz) == Clamp((base * scale[1]) \div scale[2], 1, mz)

\* ----------------------------------------------------------- gesture arbiter
\* The recognizers of composedGesture.  A recognizer is UNDETERMINED until a
\* touch reaches it, BEGAN while its criteria can still be met, AWAITING when
\* they are met but a recognizer it requires to fail has not finished, ACTIVE
\* (pinch) or END when recognized, FAILED or CANCELLED otherwise.
Recognizers == {"pinch", "doubleTap", "tap"}

Finished(st) == st \in {"END", "FAILED", "CANCELLED"}

\* a tap gesture that waits for nothing
WaitsForWithoutTapRelation == [pinch |-> {}, doubleTap |-> {"pinch"}, tap |-> {}]

\* doubleTapGesture.requireExternalGestureToFail(pinchGesture);
\* tapGesture.requireExternalGestureToFail(doubleTapGesture), and
\* Gesture.Exclusive(doubleTapGesture, tapGesture); pinch is composed with
\* Gesture.Simultaneous and waits for nothing
WaitsFor == [pinch |-> {}, doubleTap |-> {"pinch"}, tap |-> {"doubleTap"}]

\* .numberOfTaps(2) of doubleTapGesture
numberOfTaps == 2

\* an awaiting recognizer that does not wait for the others to fail
SettleWithoutWaiting(g, r) ==
    IF g[r] # "AWAITING" THEN g[r]
    ELSE IF \E w \in WaitsFor[r] : g[w] = "END" THEN "CANCELLED"
    ELSE "END"

\* an awaiting recognizer is cancelled when one it waits for is recognized,
\* and recognized itself once all of them have failed to be
Settle(g, r) ==
    IF g[r] # "AWAITING" THEN g[r]
    ELSE IF \E w \in WaitsFor[r] : g[w] = "END" THEN "CANCELLED"
    ELSE IF \A w \in WaitsFor[r] : g[w] \in {"UNDETERMINED", "FAILED", "CANCELLED"}
         THEN "END"
    ELSE "AWAITING"

Resolve(g) ==
    LET g1 == [g EXCEPT !["doubleTap"] = Settle(g, "doubleTap")]
    IN  [g1 EXCEPT !["tap"] = Settle(g1, "tap")]

Fires(r, g, h) == g[r] # "END" /\ h[r] = "END"

\* the onEnd worklets of the tap recognizers: scheduleOnRN(toggleCamera) and
\* scheduleOnRN(handleFocus, e.x, e.y)
TapMessages(g, h) ==
    (IF Fires("doubleTap", g, h) THEN << <<"toggleCamera", 0>> >> ELSE <<>>)
    \o (IF Fires("tap", g, h) THEN << <<"handleFocus", 0>> >> ELSE <<>>)

\* the recognizers settle after an event that left them in g, and the
\* recognized taps call their handlers
Arbitrate(g) ==
    LET h == Resolve(g) IN
    /\ Len(rnQueue) + Len(TapMessages(g, h)) <= MaxQueue
    /\ gesture' = h
    /\ rnQueue' = rnQueue \o TapMessages(g, h)
    /\ firedTap' = IF Fires("tap", g, h) THEN firedTap + 1 ELSE firedTap
    /\ firedDoubleTap' = IF Fires("doubleTap", g, h) THEN firedDoubleTap + 1
                         ELSE firedDoubleTap

\* the first finger of a touch comes down
TouchDown ==
    /\ fingers = 0
    /\ fingers' = 1
    /\ LET fresh == ~(gesture["doubleTap"] \in {"BEGAN", "AWAITING"})
       IN  /\ gesture' = [r \in Recognizers |->
                            IF gesture[r] = "UNDETERMINED" \/ Finished(gesture[r])
                               THEN "BEGAN" ELSE gesture[r]]
           /\ tapsSoFar' = IF fresh THEN 0 ELSE tapsSoFar
           /\ firedTap' = IF fresh THEN 0 ELSE firedTap
           /\ firedDoubleTap' = IF fresh THEN 0 ELSE firedDoubleTap
           /\ multiTouch' = IF fresh THEN FALSE ELSE multiTouch
           /\ pinched' = IF fresh THEN FALSE ELSE pinched
    /\ UNCHANGED <<exposureVars, hookVars, countdownVars, reactVars, zoomValue, pinchStartZoom,
                   pinching, rnQueue, timerVars, devices, focusVars, deviceInitialized,
                   inflight, histVars, lastOp>>

\* another finger comes down; whether the tap recognizers keep tracking a
\* touch that gained a pointer is the recognizer's choice, not the screen's
SecondTouchDown ==
    /\ fingers >= 1
    /\ fingers < MaxFingers
    /\ fingers' = fingers + 1
    /\ multiTouch' = TRUE
    /\ \E keep \in BOOLEAN :
          Arbitrate([r \in Recognizers |->
                       IF ~keep /\ r # "pinch" /\ gesture[r] = "BEGAN"
                          THEN "FAILED" ELSE gesture[r]])
    /\ UNCHANGED <<exposureVars, hookVars, countdownVars, reactVars, zoomValue, pinchStartZoom,
                   pinching, tapsSoFar, pinched, timerVars, devices, focusVars,
                   deviceInitialized, inflight, histVars, lastOp>>

\* pinchGesture.onStart (UI thread): pinchStartZoom.value = zoomValue.value
onPinchStart ==
    /\ ~pinching
    /\ pinching' = TRUE
    /\ pinchStartZoom' = zoomValue

\* pinchGesture.onEnd (UI thread): scheduleOnRN(hideZoomIndicator)
onPinchEnd ==
    /\ pinching
    /\ Len(rnQueue) + 1 <= MaxQueue
    /\ pinching' = FALSE
    /\ rnQueue' = Append(rnQueue, <<"hideZoomIndicator", 0>>)

\* pinchGesture.onUpdate (UI thread); maxZoom is the one the committed render
\* built the gesture with.  The scales are those whose product with the
\* baseline is a whole factor, or falls below 1 and is clamped to 1.
onPinchUpdate(scale) ==
    /\ pinching
    /\ \/ (pinchStartZoom * scale[1]) % scale[2] = 0
       \/ pinchStartZoom * scale[1] < scale[2]
    /\ Len(rnQueue) + 2 <= MaxQueue
    /\ LET newZoom == PinchZoom(pinchStartZoom, scale, maxZoom(rendered.cameraPosition))
       IN  /\ zoomValue' = newZoom
           /\ rnQueue' = rnQueue \o << <<"setZoom", newZoom>>, <<"setShowZoomIndicator", 1>> >>
    /\ UNCHANGED <<exposureVars, hookVars, countdownVars, reactVars, pinchStartZoom, pinching,
                   touchVars, timerVars, devices, focusVars, deviceInitialized,
                   inflight, histVars, lastOp>>

\* the pinch recognizer activates: two fingers are down and move apart or
\* together
PinchActivates ==
    /\ fingers >= 2
    /\ gesture["pinch"] = "BEGAN"
    /\ gesture' = [gesture EXCEPT !["pinch"] = "ACTIVE"]
    /\ pinched' = TRUE
    /\ onPinchStart
    /\ UNCHANGED <<exposureVars, hookVars, countdownVars, reactVars, zoomValue, rnQueue,
                   fingers, tapsSoFar, firedTap, firedDoubleTap, multiTouch,
                   timerVars, devices, focusVars, deviceInitialized, inflight,
                   histVars, lastOp>>

\* a finger of an active pinch lifts: the pinch recognizer ends
PinchFingerUp ==
    /\ fingers > 0
    /\ gesture["pinch"] = "ACTIVE"
    /\ fingers' = fingers - 1
    /\ gesture' = [gesture EXCEPT !["pinch"] = "END"]
    /\ onPinchEnd
    /\ UNCHANGED <<exposureVars, hookVars, countdownVars, reactVars, zoomValue, pinchStartZoom,
                   tapsSoFar, firedTap, firedDoubleTap, multiTouch, pinched,
                   timerVars, devices, focusVars, deviceInitialized, inflight,
                   histVars, lastOp>>

\* the zoom controller's view of a pinch: the recognizer delivers onStart and
\* later onEnd, whatever the touches that made it do so
PinchStart ==
    /\ onPinchStart
    /\ UNCHANGED <<exposureVars, hookVars, countdownVars, reactVars, zoomValue, rnQueue,
                   touchVars, timerVars, devices, focusVars, deviceInitialized,
                   inflight, histVars, lastOp>>

PinchEnd ==
    /\ onPinchEnd
    /\ UNCHANGED <<exposureVars, hookVars, countdownVars, reactVars, zoomValue, pinchStartZoom,
                   touchVars, timerVars, devices, focusVars, deviceInitialized,
                   inflight, histVars, lastOp>>

\* a finger lifts (no pinch is active); with the last finger the touch is over:
\* a pinch that never activated fails, a tap recognizer still tracking the
\* touch counts a tap
TouchUp ==
    /\ fingers > 0
    /\ gesture["pinch"] # "ACTIVE"
    /\ fingers' = fingers - 1
    /\ LET last == fingers = 1
           n == IF last /\ gesture["doubleTap"] = "BEGAN" THEN tapsSoFar + 1
                ELSE tapsSoFar
           g == [r \in Recognizers |->
                   IF ~last \/ gesture[r] # "BEGAN" THEN gesture[r]
                   ELSE IF r = "pinch" THEN "FAILED"
                   ELSE IF r = "tap" THEN "AWAITING"
                   ELSE IF n >= numberOfTaps THEN "AWAITING" ELSE "BEGAN"]
       IN  /\ tapsSoFar' = n
           /\ Arbitrate(g)
    /\ UNCHANGED <<exposureVars, hookVars, countdownVars, reactVars, zoomValue, pinchStartZoom,
                   pinching, multiTouch, pinched, timerVars, devices, focusVars,
                   deviceInitialized, inflight, histVars, lastOp>>

\* tapGesture.maxDuration(250): the finger stayed down longer
TapMaxDuration ==
    /\ fingers > 0
    /\ gesture["tap"] = "BEGAN"
    /\ gesture' = [gesture EXCEPT !["tap"] = "FAILED"]
    /\ UNCHANGED <<exposureVars, hookVars, countdownVars, reactVars, zoomValue, pinchStartZoom,
                   pinching, rnQueue, fingers, tapsSoFar, firedTap, firedDoubleTap,
                   multiTouch, pinched, timerVars, devices, focusVars,
                   deviceInitialized, inflight, histVars, lastOp>>

\* doubleTapGesture.maxDuration(300): the finger stayed down longer still
DoubleTapMaxDuration ==
    /\ fingers > 0
    /\ gesture["doubleTap"] = "BEGAN"
    /\ gesture["tap"] # "BEGAN"
    /\ Arbitrate([gesture EXCEPT !["doubleTap"] = "FAILED"])
    /\ UNCHANGED <<exposureVars, hookVars, countdownVars, reactVars, zoomValue, pinchStartZoom,
                   pinching, fingers, tapsSoFar, multiTouch, pinched, timerVars, devices,
                   focusVars, deviceInitialized, inflight, histVars, lastOp>>

\* the double-tap window closes: no further tap came in time
DoubleTapMaxDelay ==
    /\ fingers = 0
    /\ gesture["doubleTap"] = "BEGAN"
    /\ Arbitrate([gesture EXCEPT !["doubleTap"] = "FAILED"])
    /\ UNCHANGED <<exposureVars, hookVars, countdownVars, reactVars, zoomValue, pinchStartZoom,
                   pinching, fingers, tapsSoFar, multiTouch, pinched, timerVars, devices,
                   focusVars, deviceInitialized, inflight, histVars, lastOp>>

\* the hardware's view of a single tap: the recognizer delivers
\* tapGesture.onEnd, which does scheduleOnRN(handleFocus, e.x, e.y)
TapEnd ==
    /\ Len(rnQueue) + 1 <= MaxQueue
    /\ rnQueue' = Append(rnQueue, <<"handleFocus", 0>>)
    /\ UNCHANGED <<exposureVars, hookVars, countdownVars, reactVars, zoomValue,
                   pinchStartZoom, pinching, timerVars, hwVars, histVars, lastOp>>

\* handleFocus of the render whose closure is cl: nothing without focus
\* support; else the indicator is shown and a focus request issued
handleFocus(cl) ==
    IF ~cameraRefCurrent \/ ~devices[cl.cameraPosition].supportsFocus
       THEN UNCHANGED focusVars
       ELSE /\ focusPoint' = 1
            /\ showFocusIndicator' = TRUE
            /\ focusInflight' = focusInflight + 1
            /\ UNCHANGED <<focusTimers, lastFocusResult>>

\* --------------------------------------------------------- exposure controller
\* a hide that is scheduled without clearing the timeout the ref holds
ScheduleExposureHideStacking(delay) ==
    /\ exposureTimers' = exposureTimers \cup {[id |-> exposureCalls + 1, delay |-> delay]}
    /\ exposureTimeout' = exposureCalls + 1
    /\ exposureCalls' = exposureCalls + 1

\* if (exposureTimeout.current) clearTimeout(exposureTimeout.current);
\* exposureTimeout.current = setTimeout(() => setShowExposureSlider(false), delay)
ScheduleExposureHide(delay) ==
    /\ exposureTimers' = {t \in exposureTimers : t.id # exposureTimeout}
                            \cup {[id |-> exposureCalls + 1, delay |-> delay]}
    /\ exposureTimeout' = exposureCalls + 1
    /\ exposureCalls' = exposureCalls + 1

\* a mapping that does not clamp the drag position
NewExposureUnclamped(y) ==
    MIN_EXPOSURE * trackHeight
      + (trackHeight - (y - PADDING)) * (MAX_EXPOSURE - MIN_EXPOSURE)

\* panGesture.onUpdate: normalized = 1 - max(0, min(1, (e.y - PADDING) / trackHeight)),
\* newExposure = MIN_EXPOSURE + normalized * (MAX_EXPOSURE - MIN_EXPOSURE),
\* both times trackHeight
NewExposure(y) ==
    MIN_EXPOSURE * trackHeight
      + (trackHeight - Clamp(y - PADDING, 0, trackHeight)) * (MAX_EXPOSURE - MIN_EXPOSURE)

\* a press of the exposure button
toggleExposureSlider ==
    /\ ~Busy
    /\ exposureCalls + Len(rnQueue) < MaxExposureCalls
    /\ showExposureSlider' = ~showExposureSlider
    /\ ScheduleExposureHide(5000)
    /\ lastExposureCall' = "toggle"
    /\ lane' = "sync"
    /\ UNCHANGED <<exposure, dragY>>
    /\ UNCHANGED <<hookVars, countdownVars, rendered, zoomEffect, uiVars, timerVars,
                   hwVars, histVars, lastOp>>

\* the slider's panGesture.onUpdate (UI thread), the slider being rendered:
\* scheduleOnRN(onExposureChange, newExposure)
ExposureDrag(y) ==
    /\ rendered.showExposureSlider
    /\ Len(rnQueue) + 1 <= MaxQueue
    /\ exposureCalls + Len(rnQueue) < MaxExposureCalls
    /\ rnQueue' = Append(rnQueue, <<"handleExposureChange", NewExposure(y)>>)
    /\ dragY' = y
    /\ UNCHANGED <<exposure, showExposureSlider, exposureTimeout, exposureTimers,
                   exposureCalls, lastExposureCall>>
    /\ UNCHANGED <<hookVars, countdownVars, reactVars, zoomValue, pinchStartZoom,
                   pinching, timerVars, hwVars, histVars, lastOp>>

\* handleExposureChange(val)
handleExposureChange(val) ==
    /\ exposure' = val
    /\ ScheduleExposureHide(3000)
    /\ lastExposureCall' = "drag"
    /\ UNCHANGED <<showExposureSlider, dragY>>

\* a pending exposure timeout fires: setShowExposureSlider(false)
ExposureTimerFires ==
    /\ ~Busy
    /\ \E t \in exposureTimers : exposureTimers' = exposureTimers \ {t}
    /\ showExposureSlider' = FALSE
    /\ lane' = "default"
    /\ UNCHANGED <<exposure, exposureTimeout, exposureCalls, lastExposureCall, dragY>>
    /\ UNCHANGED <<hookVars, countdownVars, rendered, zoomEffect, uiVars, timerVars,
                   hwVars, histVars, lastOp>>

\* the JS thread runs the next scheduleOnRN message
DeliverRN ==
    /\ ~Busy
    /\ rnQueue # <<>>
    /\ LET m == Head(rnQueue) IN
        /\ m[1] = "handleFocus" => focusInflight + focusTimers < MaxFocus
        /\ zoom' = IF m[1] = "setZoom" THEN m[2] ELSE zoom
        /\ showZoomIndicator' = IF m[1] = "setShowZoomIndicator" THEN TRUE
                                 ELSE showZoomIndicator
        /\ zoomTimeout' = IF m[1] = "hideZoomIndicator" THEN TRUE ELSE zoomTimeout
        /\ cameraPosition' = IF m[1] = "toggleCamera" THEN OtherPosition(cameraPosition)
                             ELSE cameraPosition
        /\ deviceInitialized' = IF m[1] = "toggleCamera" THEN FALSE
                                ELSE deviceInitialized
        /\ IF m[1] = "handleFocus" THEN handleFocus(rendered) ELSE UNCHANGED focusVars
        /\ IF m[1] = "handleExposureChange" THEN handleExposureChange(m[2])
           ELSE UNCHANGED exposureVars
        /\ lastOp' = IF m[1] = "setZoom" THEN <<"pinch", 0>>
                     ELSE IF m[1] = "toggleCamera" THEN <<"flip", 0>> ELSE lastOp
    /\ rnQueue' = Tail(rnQueue)
    /\ lane' = "default"
    /\ UNCHANGED <<cameraReady, isCapturing, showFlashOverlay,
                   lastPhoto, timerMode, timerActive, countdownVars, rendered,
                   zoomEffect, zoomValue, pinchStartZoom, pinching,
                   flashTimers, devices, touchVars, inflight, histVars>>

\* a rejection that leaves handleFocus before the hide is scheduled
focusSettlesThrowing(ok) ==
    /\ focusInflight' = focusInflight - 1
    /\ focusTimers' = IF ok THEN focusTimers + 1 ELSE focusTimers
    /\ lastFocusResult' = IF ok THEN "ok" ELSE "failed"

\* handleFocus after its await: the request resolved (ok), or was rejected and
\* the catch logged it; then setTimeout(() => setShowFocusIndicator(false), 1500)
focusSettles(ok) ==
    /\ focusInflight' = focusInflight - 1
    /\ focusTimers' = focusTimers + 1
    /\ lastFocusResult' = IF ok THEN "ok" ELSE "failed"

\* cameraRef.current.focus settles, resolved or rejected
FocusSettled ==
    /\ ~Busy
    /\ focusInflight > 0
    /\ \E ok \in BOOLEAN : focusSettles(ok)
    /\ lane' = "default"
    /\ UNCHANGED <<exposureVars, hookVars, countdownVars, rendered, zoomEffect, uiVars,
                   focusPoint, showFocusIndicator, timerVars, devices, touchVars,
                   deviceInitialized, inflight, histVars, lastOp>>

\* the focus indicator's timeout fires
FocusTimerFires ==
    /\ ~Busy
    /\ focusTimers > 0
    /\ focusTimers' = focusTimers - 1
    /\ showFocusIndicator' = FALSE
    /\ lane' = "default"
    /\ UNCHANGED <<exposureVars, hookVars, countdownVars, rendered, zoomEffect, uiVars,
                   focusPoint, focusInflight, lastFocusResult, timerVars, devices, touchVars,
                   deviceInitialized, inflight, histVars, lastOp>>

\* hideZoomIndicator's timeout: setShowZoomIndicator(false)
ZoomTimeoutFires ==
    /\ ~Busy
    /\ zoomTimeout
    /\ zoomTimeout' = FALSE
    /\ showZoomIndicator' = FALSE
    /\ lane' = "default"
    /\ UNCHANGED <<exposureVars, cameraPosition, cameraReady, isCapturing, showFlashOverlay,
                   lastPhoto, zoom, timerMode, timerActive, countdownVars, rendered,
                   zoomEffect, uiVars, flashTimers, hwVars, histVars, lastOp>>

\* the gesture arbiter and the handlers its outcomes reach; no outcome changes
\* zoom or count here, so no commit of this layer leaves a passive effect
NextGesture ==
    \/ TouchDown
    \/ SecondTouchDown
    \/ TouchUp
    \/ TapMaxDuration
    \/ DoubleTapMaxDuration
    \/ DoubleTapMaxDelay
    \/ PinchActivates
    \/ PinchFingerUp
    \/ DeliverRN
    \/ FocusSettled
    \/ FocusTimerFires
    \/ ZoomTimeoutFires
    \/ Render

SpecGesture == Init /\ [][NextGesture]_vars

\* the zoom controller: pinches, quick-select presses and camera flips
NextZoom ==
    \/ toggleCamera
    \/ \E level \in ZoomLevels : setDiscreteZoom(level)
    \/ PinchStart
    \/ \E scale \in Scales : onPinchUpdate(scale)
    \/ PinchEnd
    \/ DeliverRN
    \/ ZoomTimeoutFires
    \/ Render
    \/ FlushPassiveEffects

SpecZoom == Init /\ [][NextZoom]_vars

NextCapture ==
    \/ OnInitialized
    \/ PressCapture
    \/ cycleTimer
    \/ Tick
    \/ \E id \in inflight : TakePhotoResolved(id)
    \/ \E id \in inflight : TakePhotoRejected(id)
    \/ FlashTimerFires
    \/ Render
    \/ FlushPassiveEffects

SpecCapture == Init /\ [][NextCapture]_vars

\* the hardware handle: the shutter requests of the capture button and the
\* focus requests of single taps
NextHardware ==
    \/ OnInitialized
    \/ PressCapture
    \/ \E id \in inflight : TakePhotoResolved(id)
    \/ \E id \in inflight : TakePhotoRejected(id)
    \/ FlashTimerFires
    \/ TapEnd
    \/ DeliverRN
    \/ FocusSettled
    \/ FocusTimerFires
    \/ Render

SpecHardware == Init /\ [][NextHardware]_vars

\* the same, with what the platform guarantees: a focus request settles, a
\* timeout fires, a scheduled render is made
SpecFocusLive ==
    /\ Init /\ [][NextHardware]_vars
    /\ WF_vars(FocusSettled) /\ WF_vars(FocusTimerFires) /\ WF_vars(Render)

\* captures around a camera flip: the device of the new position initializes
\* some time after the flip
NextFlip ==
    \/ OnInitialized
    \/ toggleCamera
    \/ PressCapture
    \/ \E id \in inflight : TakePhotoResolved(id)
    \/ \E id \in inflight : TakePhotoRejected(id)
    \/ FlashTimerFires
    \/ Render

SpecFlip == Init /\ [][NextFlip]_vars

\* the exposure controller: the exposure button, drags of the slider and the
\* hide timeouts
NextExposure ==
    \/ toggleExposureSlider
    \/ \E y \in DragPositions : ExposureDrag(y)
    \/ DeliverRN
    \/ ExposureTimerFires
    \/ Render

SpecExposure == Init /\ [][NextExposure]_vars

\* ------------------------------------------------------------------ claims
\* C1: capture re-entrancy: however the capture triggers follow each other,
\* at most one takePhoto call is outstanding in every reachable state.
C1_OneShutterOutstanding == Cardinality(inflight) <= 1

\* a step of the sequencer that no capture trigger takes, in a sequence one
\* trigger started: the countdown loses one second, or it has reached zero and
\* the shutter is called, or the capture ends
AutomaticStep ==
    LET p == Phase
        q == Phase'
    IN  IF p = q THEN shots' = shots
        ELSE \/ /\ p[1] = "CountingDown" /\ q[1] = "CountingDown"
                /\ p[2] >= 1 /\ q[2] = p[2] - 1
                /\ shots' = shots
             \/ /\ p = <<"CountingDown", 0>> /\ q = <<"Capturing", 0>>
                /\ shots' = shots + 1
             \/ /\ p[1] = "Capturing" /\ q = <<"Idle", 0>>
                /\ shots' = shots

\* the trigger that starts the sequence: camera ready, sequencer idle and
\* rendered so, timer mode n
TriggerStep ==
    (/\ Phase = <<"Idle", 0>> /\ inflight = {} /\ ~Dirty /\ ~EffectsPending
     /\ cameraReady /\ timerMode > 0)
    => (Phase' = <<"CountingDown", timerMode>> /\ shots' = shots)

\* C2: with timerMode = n in {3, 5, 10}, camera ready and sequencer idle, one
\* capture trigger gives CountingDown(n), CountingDown(n-1), ...,
\* CountingDown(1), then (the count at zero) Capturing, then Idle; the count
\* goes down by one per tick and the one shutter call is made when it is zero.
C2_TimerSequence ==
    [][/\ (presses' # presses) => TriggerStep
       /\ (presses' = presses /\ trig = 1) => AutomaticStep]_vars

C2_Witness ==
    /\ trig = 1 /\ presses = 1 /\ timerMode = 3 /\ ticks = 3
    /\ shots = 1 /\ Phase = <<"Idle", 0>> /\ lastResult = "ok"

\* C3: a capture trigger received while the countdown is running is ignored: it
\* issues no shutter call and leaves the countdown as it is.
C3_TriggerIgnoredWhileCounting ==
    [][(presses' # presses /\ timerActive /\ mounted /\ count > 0)
         => (/\ shots' = shots /\ inflight' = inflight
             /\ count' = count /\ tickTimer' = tickTimer
             /\ timerActive' = timerActive /\ isCapturing' = isCapturing)]_vars

\* C4: when takePhoto is rejected the sequencer is idle again (isCapturing
\* false), lastPhoto is what it was, nothing is thrown further, and a trigger
\* received after the failure is accepted: it calls the shutter, or starts the
\* countdown when a timer is set.
C4_CaptureFailure ==
    [][/\ (rejected' # rejected)
            => (~isCapturing' /\ lastPhoto' = lastPhoto /\ unhandled' = unhandled)
       /\ (/\ presses' # presses /\ lastResult = "failed"
           /\ Phase = <<"Idle", 0>> /\ inflight = {} /\ ~Dirty /\ ~EffectsPending)
            => IF timerMode = 0 THEN shots' = shots + 1 /\ isCapturing'
               ELSE Phase' = <<"CountingDown", timerMode>>]_vars

C4_Witness ==
    /\ rejected = 1 /\ lastResult = "failed" /\ lastPhoto = 0
    /\ presses = 2 /\ shots = 2 /\ inflight = {2} /\ ticks = 0 /\ ~timerActive

\* C5: a capture trigger received while cameraReady is false is ignored (no
\* shutter call, no countdown, capture state as it was), and no takePhoto call
\* is issued before onInitialized has fired.
C5_IgnoredBeforeReady ==
    [][/\ (presses' # presses /\ ~cameraReady)
            => UNCHANGED <<shots, inflight, timerActive, isCapturing,
                           showFlashOverlay, mounted, count>>
       /\ (shots' # shots) => deviceInitialized]_vars

C5_Witness == presses = 1 /\ ~cameraReady /\ ~deviceInitialized /\ shots = 0

\* C6: in every reachable state the stored zoom factor is within
\* [1, maxZoom] of the active device.
C6_ZoomWithinDeviceRange == 1 <= zoom /\ zoom <= maxZoom(cameraPosition)

\* C7: a quick-select press of level v stores clamp(v, 1, maxZoom).
C7_DiscreteZoomClamped ==
    [][(lastOp'[1] = "select" /\ (lastOp' # lastOp \/ zoom' # zoom))
         => zoom' = Clamp(lastOp'[2], 1, maxZoom(cameraPosition))]_vars

\* C8: once a flip has left the factor above the new maxZoom, the next
\* zoom-affecting operation (pinch update or quick-select press) leaves the
\* factor at or below the new maxZoom.
C8_ReclampAfterFlip ==
    [][(/\ lastOp[1] = "flip" /\ zoom > maxZoom(cameraPosition)
        /\ lastOp'[1] \in {"select", "pinch"})
         => zoom' <= maxZoom(cameraPosition')]_vars

\* C10: when two one-finger taps come within the double-tap window, the
\* double-tap handler has fired exactly once and the single-tap handler has
\* not fired for either tap.
C10_DoubleTapOnly ==
    (tapsSoFar = numberOfTaps /\ ~multiTouch)
      => (gesture["doubleTap"] = "END" /\ firedDoubleTap = 1 /\ firedTap = 0)

C10_Witness ==
    /\ tapsSoFar = numberOfTaps /\ ~multiTouch /\ fingers = 0
    /\ firedDoubleTap = 1 /\ firedTap = 0 /\ cameraPosition = "front"

\* C11: a single one-finger tap that no second tap follows within the window
\* makes the single-tap handler fire exactly once, and the handler fires only
\* once the double-tap recognizer has failed, never before.
C11_SingleTapAfterWindow ==
    [][/\ (firedTap' > firedTap /\ ~multiTouch')
            => (/\ firedTap' = 1 /\ firedDoubleTap' = 0
                /\ gesture'["doubleTap"] = "FAILED"
                /\ Len(rnQueue') = Len(rnQueue) + 1
                /\ rnQueue'[Len(rnQueue')] = <<"handleFocus", 0>>)
       /\ (/\ ~multiTouch /\ tapsSoFar = 1 /\ gesture["tap"] = "AWAITING"
           /\ gesture["doubleTap"] = "BEGAN" /\ gesture'["doubleTap"] = "FAILED")
            => firedTap' = firedTap + 1]_vars

C11_Witness ==
    /\ tapsSoFar = 1 /\ ~multiTouch /\ fingers = 0 /\ firedTap = 1
    /\ firedDoubleTap = 0 /\ gesture["doubleTap"] = "FAILED"
    /\ gesture["tap"] = "END"

\* the exposure, times trackHeight, the spec gives for a drag at y: the
\* normalized position p is 1 at the top end of the track and 0 at the bottom
\* end, the exposure is -2 + p*4, and positions off the track give the ends
ExpectedExposure(y) ==
    IF y <= PADDING THEN 2 * trackHeight
    ELSE IF y >= PADDING + trackHeight THEN (0 - 2) * trackHeight
    ELSE (0 - 2) * trackHeight + 4 * (trackHeight - (y - PADDING))

\* C12: a drag at normalized position p asks for exposure -2 + p*4, clamped for
\* positions off the track; that value is the one stored, and the stored
\* exposure is within [-2, 2] in every state.
C12_ExposureMapping ==
    [][/\ (Len(rnQueue') > Len(rnQueue))
            => rnQueue'[Len(rnQueue')] = <<"handleExposureChange", ExpectedExposure(dragY')>>
       /\ (Len(rnQueue') < Len(rnQueue)) => exposure' = Head(rnQueue)[2]
       /\ (0 - 2) * trackHeight <= exposure' /\ exposure' <= 2 * trackHeight]_vars

C12_Witness ==
    /\ lastExposureCall = "drag" /\ rnQueue = <<>> /\ dragY = 200
    /\ exposure = (0 - 2) * trackHeight /\ exposureCalls = 3

\* C13: after any sequence of exposure-button presses and drags at most one
\* exposure hide timeout is pending, it is the one of the most recent call and
\* has that call's delay (5s after a press, 3s after a drag).
C13_ExposureTimerNotStacked ==
    /\ Cardinality(exposureTimers) <= 1
    /\ \A t \in exposureTimers :
          /\ t.id = exposureCalls /\ t.id = exposureTimeout
          /\ t.delay = IF lastExposureCall = "toggle" THEN 5000 ELSE 3000

C13_Witness ==
    /\ exposureCalls = 3 /\ lastExposureCall = "drag"
    /\ exposureTimers = {[id |-> 3, delay |-> 3000]} /\ showExposureSlider

\* C14: handleFocus on a focus-capable device shows the indicator at once; a
\* rejected focus request raises nothing and still schedules the hide; and a
\* shown indicator is eventually hidden, whether the request succeeds or fails.
C14_FocusIndicatorLifecycle ==
    /\ [][/\ (focusInflight' > focusInflight) => (showFocusIndicator' /\ focusPoint' # 0)
          /\ (focusInflight' < focusInflight /\ lastFocusResult' = "failed")
               => (focusTimers' = focusTimers + 1 /\ unhandled' = unhandled)]_vars
    /\ (showFocusIndicator ~> ~showFocusIndicator)

C14_Witness ==
    /\ lastFocusResult = "failed" /\ focusPoint # 0 /\ ~showFocusIndicator
    /\ focusInflight = 0 /\ focusTimers = 0

\* C16: in every reachable state the unresolved focus requests and the
\* unresolved takePhoto requests are at most one in all.
C16_OneHardwareRequest == focusInflight + Cardinality(inflight) <= 1

\* C15: lastPhoto is never cleared: once it holds a photo it holds one in every
\* later state, and it changes only when a takePhoto call resolves, to the
\* photo of that call.
C15_LastPhotoKept ==
    [][/\ (lastPhoto # 0) => (lastPhoto' # 0)
       /\ (lastPhoto' # lastPhoto)
            => (/\ lastPhoto' \in inflight /\ ~(lastPhoto' \in inflight')
                /\ lastResult' = "ok" /\ rejected' = rejected)]_vars

C15_Witness ==
    /\ lastPhoto = 1 /\ shots = 2 /\ rejected = 1 /\ lastResult = "failed"
    /\ inflight = {} /\ ~isCapturing

\* C17: timerMode is always one of 0, 3, 5, 10; a cycleTimer call moves it to
\* the next mode in the order 0, 3, 5, 10, 0; and four calls in a row bring
\* every mode back to itself.
C17_TimerCycle ==
    /\ [](timerMode \in {0, 3, 5, 10})
    /\ [][(timerMode' # timerMode)
            => <<timerMode, timerMode'>> \in {<<0, 3>>, <<3, 5>>, <<5, 10>>, <<10, 0>>}]_vars
    /\ [](\A m \in {0, 3, 5, 10} :
            NextTimerMode(NextTimerMode(NextTimerMode(NextTimerMode(m)))) = m)

C17_Witness ==
    /\ timerMode = 0 /\ ticks = 3 /\ shots = 1 /\ presses = 1 /\ ~timerActive

\* C18: at onPinchStart the baseline pinchStartZoom taken is the zoom factor
\* the screen's state holds at that moment, whatever the UI thread and the JS
\* thread have done before.
C18_PinchBaselineIsZoom ==
    [][(~pinching /\ pinching') => pinchStartZoom' = zoom]_vars

\* C19: the hide timeout scheduled at the end of a pinch does not fire while a
\* later pinch is in progress.
C19_NoHideDuringPinch ==
    [][(zoomTimeout /\ ~zoomTimeout') => ~pinching]_vars

\* C20: a quick-select press makes the zoom indicator visible and schedules
\* its hide timeout.
C20_SelectShowsIndicator ==
    [][(lastOp'[1] = "select" /\ (lastOp' # lastOp \/ zoom' # zoom))
         => (showZoomIndicator' /\ zoomTimeout')]_vars

\* C21: every shutter call comes with a false-to-true transition of
\* showFlashOverlay, and the overlay flag is not cleared while a capture is in
\* progress by the delayed hide of an earlier capture.
C21_FlashPerCapture ==
    [][/\ (shots' > shots) => (~showFlashOverlay /\ showFlashOverlay')
       /\ (showFlashOverlay /\ ~showFlashOverlay') => (inflight = {} /\ ~isCapturing)]_vars

\* C22: the focus hide is debounced: a focus hide timeout that fires is the one
\* of the latest focus request, so the indicator is not hidden while a later
\* request is still unsettled or its own timeout still pending.
C22_FocusHideDebounced ==
    [][(focusTimers' < focusTimers) => (focusInflight = 0 /\ focusTimers = 1)]_vars

\* C23: a takePhoto call is issued only while the committed render has the
\* Camera active; the call made at the end of a countdown comes after the
\* Camera, inactive during the countdown, has been rendered active again.
C23_ShutterOnlyWhileActive ==
    [][(shots' > shots) => CameraIsActive(rendered)]_vars

\* C24: once no pinch is in progress and every scheduleOnRN message, render
\* and effect has run, the shared value zoomValue equals the zoom state.
C24_ZoomMirrorConverges ==
    (~pinching /\ rnQueue = <<>> /\ ~Dirty /\ ~EffectsPending) => zoomValue = zoom

\* C25: after a camera flip no capture trigger is accepted until the device of
\* the new position has signalled initialized: cameraReady is true only while
\* the current device is initialized, and no shutter call is made before.
C25_ReadyResetOnFlip ==
    [][/\ cameraReady' => deviceInitialized'
       /\ (shots' > shots) => deviceInitialized]_vars

====
